---- MODULE Spec2Model ----
(***************************************************************************)
(* Model of auditlog/receivers.py: the four signal receivers of            *)
(* django-auditlog (log_create, log_update, log_delete, log_m2m_change),   *)
(* the storage they read and the log store they append to.                 *)
(***************************************************************************)
EXTENDS Integers, Sequences, FiniteSets, TLC

\* ------------------------------------------------------------------ bounds
MaxLog == 2        \* receivers are dispatched while the log holds fewer entries
MaxFields == 1     \* a registered model tracks 0..MaxFields fields
MaxKey == 1        \* related keys are 1..MaxKey

\* ----------------------------------------------------------- Python values
PyNone == [t |-> "none"]
PyInt(n) == [t |-> "int", v |-> n]
PyStr(s) == [t |-> "str", v |-> s]
PyList(s) == [t |-> "list", v |-> s]
PyDict(pairs) == [t |-> "dict", v |-> pairs]   \* insertion-ordered <<key, value>> pairs
PySet(S) == [t |-> "set", v |-> S]

\* Python truthiness of a changes mapping (`if changes:`).
Truthy(x) == CASE x.t = "none" -> FALSE
               [] x.t = "dict" -> Len(x.v) > 0
               [] x.t = "list" -> Len(x.v) > 0
               [] OTHER -> TRUE

\* list(pk_set) / [item.pk for item in qs]: keys in ascending order.
RECURSIVE SortedSeq(_)
SortedSeq(S) ==
    IF S = {} THEN <<>>
    ELSE LET m == CHOOSE x \in S : \A y \in S : x <= y
         IN <<PyInt(m)>> \o SortedSeq(S \ {m})

\* json.dumps with the default separators (", " and ": ").
RECURSIVE dumps(_)
RECURSIVE dumps_items(_, _)
RECURSIVE dumps_pairs(_, _)
dumps_items(s, i) ==
    IF i > Len(s) THEN ""
    ELSE dumps(s[i]) \o (IF i < Len(s) THEN ", " ELSE "") \o dumps_items(s, i + 1)

dumps_pairs(s, i) ==
    IF i > Len(s) THEN ""
    ELSE "\"" \o s[i][1] \o "\": " \o dumps(s[i][2])
         \o (IF i < Len(s) THEN ", " ELSE "") \o dumps_pairs(s, i + 1)

dumps(x) ==
    CASE x.t = "none" -> "null"
      [] x.t = "int" -> ToString(x.v)
      [] x.t = "str" -> "\"" \o x.v \o "\""
      [] x.t = "list" -> "[" \o dumps_items(x.v, 1) \o "]"
      [] x.t = "dict" -> "{" \o dumps_pairs(x.v, 1) \o "}"

\* ------------------------------------------------------- models, instances
PKs == {1}                       \* primary keys of persisted records
Keys == 1..MaxKey                \* primary keys of related records
FieldValues == {PyInt(0), PyInt(1)}
FieldName(i) == "f" \o ToString(i)

\* The through model the m2m_changed receiver is connected for.
Through == "article_tags"

\* instance._meta.get_fields() of the two models an event's instance may be of:
\* one declares a ManyToManyField through the sender, the other does not.
MetaDeclaring ==
    << [name |-> PyStr("title"), kind |-> "CharField", through |-> PyNone],
       [name |-> PyStr("labels"), kind |-> "ManyToManyField", through |-> PyStr("article_labels")],
       [name |-> PyStr("tags"), kind |-> "ManyToManyField", through |-> PyStr(Through)] >>

MetaOther ==
    << [name |-> PyStr("title"), kind |-> "CharField", through |-> PyNone],
       [name |-> PyStr("labels"), kind |-> "ManyToManyField", through |-> PyStr("article_labels")] >>

Metas == {MetaDeclaring, MetaOther}

Snapshots(n) == [1..n -> FieldValues]

\* Instances of the registered model, as the save and delete signals carry them.
Instances(n) ==
    [t : {"obj"}, pk : {PyNone} \cup {PyInt(p) : p \in PKs},
     fields : Snapshots(n), meta : {MetaDeclaring}]

\* Instances an m2m_changed event may carry: of either model of the relation.
\* log_m2m_change reads no field value, so one snapshot stands for all.
M2MInstances(n) ==
    [t : {"obj"}, pk : {PyNone} \cup {PyInt(p) : p \in PKs},
     fields : {[i \in 1..n |-> PyInt(0)]}, meta : Metas]

Persisted(instance) == instance.pk # PyNone

Actions == {"pre_add", "post_add", "pre_remove", "post_remove", "pre_clear", "post_clear"}

\* ------------------------------------------------------------------- state
VARIABLES
    tracked,   \* number of fields the registered model tracks
    log,       \* the log store: sequence of LogEntry rows
    prev,      \* the log store as it was when the last event was dispatched
    ev,        \* the last event dispatched, the storage it ran against, its outcome
    op         \* the clear operation in progress or just completed

vars == <<tracked, log, prev, ev, op>>

\* ------------------------------------------------------------ diff computer
\* auditlog.diff.model_instance_diff: field name -> [old, new] for every field
\* whose value differs; an absent snapshot reads as None for every field.
RECURSIVE diff_fields(_, _, _, _)
diff_fields(old, new, n, i) ==
    IF i > n THEN <<>>
    ELSE LET old_value == IF old = PyNone THEN PyNone ELSE old.fields[i]
             new_value == IF new = PyNone THEN PyNone ELSE new.fields[i]
         IN (IF old_value # new_value
             THEN << <<FieldName(i), PyList(<<old_value, new_value>>)>> >>
             ELSE <<>>) \o diff_fields(old, new, n, i + 1)

model_instance_diff(old, new) ==
    LET n == IF new # PyNone THEN Len(new.fields)
             ELSE IF old # PyNone THEN Len(old.fields) ELSE 0
    IN PyDict(diff_fields(old, new, n, 1))

\* --------------------------------------------------------------- log store
\* LogEntry.objects.log_create(instance, action=..., changes=...): one new row.
LogEntry_log_create(entries, instance, action, changes) ==
    Append(entries, [object_pk |-> instance.pk, action |-> action, changes |-> changes])

\* What a receiver call leaves behind: the log store, the exception that
\* escaped it ("" when it returned), and the storage lookups it performed.
Returned(entries, reads) == [log |-> entries, raised |-> "", reads |-> reads]
Raised(entries, exc, reads) == [log |-> entries, raised |-> exc, reads |-> reads]

\* --------------------------------------------------------------- receivers
\* Variant: a CREATE entry only when the ChangeSet is non-empty, as for updates.
log_create_skips_empty(entries, instance, created) ==
    IF created /\ Truthy(model_instance_diff(PyNone, instance))
    THEN Returned(LogEntry_log_create(entries, instance, "CREATE",
                      dumps(model_instance_diff(PyNone, instance))), {})
    ELSE Returned(entries, {})

\* Variant: the receiver runs twice for one event (connected twice).
log_create_twice(entries, instance, created) ==
    IF created
    THEN LET changes == model_instance_diff(PyNone, instance)
             once == LogEntry_log_create(entries, instance, "CREATE", dumps(changes))
         IN Returned(LogEntry_log_create(once, instance, "CREATE", dumps(changes)), {})
    ELSE Returned(entries, {})

\* Variant: the snapshots are handed to the diff in the wrong order.
log_create_swapped(entries, instance, created) ==
    IF created
    THEN LET changes == model_instance_diff(instance, PyNone)
         IN Returned(LogEntry_log_create(entries, instance, "CREATE", dumps(changes)), {})
    ELSE Returned(entries, {})

log_create(entries, instance, created) ==
    IF created
    THEN LET changes == model_instance_diff(PyNone, instance)
         IN Returned(LogEntry_log_create(entries, instance, "CREATE", dumps(changes)), {})
    ELSE Returned(entries, {})

\* sender.objects.get(pk=...): the stored row as an instance, or DoesNotExist.
objects_get(sender_objects, instance) ==
    IF instance.pk.v \in DOMAIN sender_objects
    THEN [instance EXCEPT !.fields = sender_objects[instance.pk.v]]
    ELSE PyStr("DoesNotExist")

\* Variant: the `if changes:` test is missing.
log_update_always_logs(entries, sender_objects, instance) ==
    IF instance.pk # PyNone
    THEN LET old == objects_get(sender_objects, instance)
         IN IF old = PyStr("DoesNotExist")
            THEN Returned(entries, {"objects.get"})
            ELSE Returned(LogEntry_log_create(entries, instance, "UPDATE",
                              dumps(model_instance_diff(old, instance))), {"objects.get"})
    ELSE Returned(entries, {})

\* Variant: DoesNotExist is not caught.
log_update_uncaught(entries, sender_objects, instance) ==
    IF instance.pk # PyNone
    THEN LET old == objects_get(sender_objects, instance)
         IN IF old = PyStr("DoesNotExist")
            THEN Raised(entries, "DoesNotExist", {"objects.get"})
            ELSE LET changes == model_instance_diff(old, instance)
                 IN IF Truthy(changes)
                    THEN Returned(LogEntry_log_create(entries, instance, "UPDATE",
                                                      dumps(changes)), {"objects.get"})
                    ELSE Returned(entries, {"objects.get"})
    ELSE Returned(entries, {})

log_update(entries, sender_objects, instance) ==
    IF instance.pk # PyNone
    THEN LET old == objects_get(sender_objects, instance)
         IN IF old = PyStr("DoesNotExist")
            THEN Returned(entries, {"objects.get"})
            ELSE LET new == instance
                     changes == model_instance_diff(old, new)
                 IN IF Truthy(changes)
                    THEN Returned(LogEntry_log_create(entries, instance, "UPDATE",
                                                      dumps(changes)), {"objects.get"})
                    ELSE Returned(entries, {"objects.get"})
    ELSE Returned(entries, {})

\* Variant: the `instance.pk is not None` test is missing.
log_delete_unguarded(entries, instance) ==
    Returned(LogEntry_log_create(entries, instance, "DELETE",
                 dumps(model_instance_diff(instance, PyNone))), {})

log_delete(entries, instance) ==
    IF instance.pk # PyNone
    THEN LET changes == model_instance_diff(instance, PyNone)
         IN Returned(LogEntry_log_create(entries, instance, "DELETE", dumps(changes)), {})
    ELSE Returned(entries, {})

\* The first ManyToManyField of the instance whose manager's through model is
\* the sender, with that manager; None when the loop ends without a match.
RECURSIVE get_field_from(_, _, _)
get_field_from(sender, instance, i) ==
    IF i > Len(instance.meta) THEN PyNone
    ELSE LET field == instance.meta[i]
         IN IF field.kind = "ManyToManyField" /\ field.through = sender
            THEN [field |-> field, manager |-> [through |-> field.through, pk |-> instance.pk]]
            ELSE get_field_from(sender, instance, i + 1)

_get_field(sender, instance) == get_field_from(sender, instance, 1)

\* _field.all(): the keys the through rows relate to the manager's instance.
manager_all(through_rows, manager) == through_rows[manager.pk.v]

_log_m2m_clear(entries, through_rows, sender, instance) ==
    LET found == _get_field(sender, instance)
    IN IF found = PyNone
       THEN Raised(entries, "TypeError", {"get_fields"})
       ELSE LET field == found.field
                cleared == SortedSeq(manager_all(through_rows, found.manager))
            IN IF field.name = PyNone \/ Len(cleared) = 0
               THEN Returned(entries, {"get_fields", "all"})
               ELSE Returned(
                        LogEntry_log_create(entries, instance, "M2M_CHANGE",
                            dumps(PyDict(<< <<field.name.v,
                                PyList(<<PyStr("clear"), PyList(cleared)>>)>> >>))),
                        {"get_fields", "all"})

startswith(s, prefix) == Len(s) >= Len(prefix) /\ SubSeq(s, 1, Len(prefix)) = prefix

log_m2m_change(entries, through_rows, sender, instance, action, pk_set) ==
    IF instance.pk = PyNone \/ action = "post_clear"
    THEN Returned(entries, {})
    ELSE IF action = "pre_clear"
    THEN _log_m2m_clear(entries, through_rows, sender, instance)
    ELSE IF ~startswith(action, "post_")
    THEN Returned(entries, {})
    ELSE IF pk_set.t # "set"
    THEN Raised(entries, "TypeError", {})
    ELSE IF Cardinality(pk_set.v) = 0
    THEN Returned(entries, {})
    ELSE LET found == _get_field(sender, instance)
         IN IF found = PyNone
            THEN Raised(entries, "TypeError", {"get_fields"})
            ELSE LET field == found.field
                 IN IF field.name = PyNone
                    THEN Returned(entries, {"get_fields"})
                    ELSE Returned(
                             LogEntry_log_create(entries, instance, "M2M_CHANGE",
                                 dumps(PyDict(<< <<field.name.v,
                                     PyList(<<PyStr(SubSeq(action, 6, Len(action))),
                                              PyList(SortedSeq(pk_set.v))>>)>> >>))),
                             {"get_fields"})

\* ----------------------------------------------------------- signal dispatch
\* Storage as a receiver may find it: the rows of the sender model, and the
\* keys the through model relates to each instance.
Tables(n) == UNION {[D -> Snapshots(n)] : D \in SUBSET PKs}
ThroughRows == [PKs -> SUBSET Keys]
NoRows == [p \in {} |-> <<>>]
NoThroughRows == [p \in PKs |-> {}]

KeySets == {PySet(S) : S \in SUBSET Keys}

\* pk_set of a clear event: None as the host sends it, or any other kind of value.
ClearKeySets == {PyNone, PySet({}), PySet(Keys)}

NoEvent ==
    [signal |-> "none", instance |-> PyNone, action |-> "", pk_set |-> PyNone,
     created |-> FALSE, objects |-> NoRows, through_rows |-> NoThroughRows,
     raised |-> "", reads |-> {}]

Idle == [stage |-> "idle", n0 |-> 0, had |-> {}]

\* The keys related to an instance; an unsaved instance has none.
Related(through_rows, instance) ==
    IF Persisted(instance) THEN through_rows[instance.pk.v] ELSE {}

Dispatch(e, r) ==
    /\ prev' = log
    /\ log' = r.log
    /\ ev' = [e EXCEPT !.raised = r.raised, !.reads = r.reads]

Init ==
    /\ tracked \in 0..MaxFields
    /\ log = <<>>
    /\ prev = <<>>
    /\ ev = NoEvent
    /\ op = Idle

\* post_save -> log_create.
post_save ==
    \E instance \in Instances(tracked), created \in BOOLEAN :
        /\ op.stage # "pre" /\ Len(log) < MaxLog
        /\ Persisted(instance)
        /\ Dispatch([NoEvent EXCEPT !.signal = "post_save", !.instance = instance,
                                    !.created = created],
                    log_create(log, instance, created))
        /\ op' = Idle
        /\ UNCHANGED tracked

\* pre_save -> log_update; storage still holds the old row, if any.
pre_save ==
    \E instance \in Instances(tracked), sender_objects \in Tables(tracked) :
        /\ op.stage # "pre" /\ Len(log) < MaxLog
        /\ Dispatch([NoEvent EXCEPT !.signal = "pre_save", !.instance = instance,
                                    !.objects = sender_objects],
                    log_update(log, sender_objects, instance))
        /\ op' = Idle
        /\ UNCHANGED tracked

\* post_delete -> log_delete.
post_delete ==
    \E instance \in Instances(tracked) :
        /\ op.stage # "pre" /\ Len(log) < MaxLog
        /\ Dispatch([NoEvent EXCEPT !.signal = "post_delete", !.instance = instance],
                    log_delete(log, instance))
        /\ op' = Idle
        /\ UNCHANGED tracked

\* m2m_changed -> log_m2m_change, for the add and remove actions.
m2m_changed ==
    \E instance \in M2MInstances(tracked), pk_set \in KeySets,
       action \in Actions \ {"pre_clear", "post_clear"} :
        /\ op.stage # "pre" /\ Len(log) < MaxLog
        /\ Dispatch([NoEvent EXCEPT !.signal = "m2m_changed", !.instance = instance,
                                    !.action = action, !.pk_set = pk_set],
                    log_m2m_change(log, NoThroughRows, PyStr(Through), instance,
                                   action, pk_set))
        /\ op' = Idle
        /\ UNCHANGED tracked

\* m2m_changed, first stage of a clear: the relation is still populated.
m2m_pre_clear ==
    \E instance \in M2MInstances(tracked), pk_set \in ClearKeySets,
       through_rows \in ThroughRows :
        /\ op.stage # "pre" /\ Len(log) < MaxLog
        /\ Persisted(instance) \/ through_rows = NoThroughRows
        /\ Dispatch([NoEvent EXCEPT !.signal = "m2m_changed", !.instance = instance,
                                    !.action = "pre_clear", !.pk_set = pk_set,
                                    !.through_rows = through_rows],
                    log_m2m_change(log, through_rows, PyStr(Through), instance,
                                   "pre_clear", pk_set))
        /\ op' = [stage |-> "pre", n0 |-> Len(log),
                  had |-> Related(through_rows, instance)]
        /\ UNCHANGED tracked

\* m2m_changed, second stage of the same clear: the relation has been emptied.
m2m_post_clear ==
    \E pk_set \in ClearKeySets :
        /\ op.stage = "pre"
        /\ Dispatch([NoEvent EXCEPT !.signal = "m2m_changed", !.instance = ev.instance,
                                    !.action = "post_clear", !.pk_set = pk_set],
                    log_m2m_change(log, NoThroughRows, PyStr(Through), ev.instance,
                                   "post_clear", pk_set))
        /\ op' = [op EXCEPT !.stage = "post"]
        /\ UNCHANGED tracked

Next ==
    \/ post_save
    \/ pre_save
    \/ post_delete
    \/ m2m_changed
    \/ m2m_pre_clear
    \/ m2m_post_clear

Spec == Init /\ [][Next]_vars

\* -------------------------------------------------------------- properties
\* What the last event did to the log store.
Unchanged == log = prev

Appended(action) ==
    /\ Len(log) = Len(prev) + 1
    /\ SubSeq(log, 1, Len(prev)) = prev
    /\ log[Len(log)].action = action

LastChanges == log[Len(log)].changes

StoredRowExists ==
    Persisted(ev.instance) /\ ev.instance.pk.v \in DOMAIN ev.objects

StoredFields == ev.objects[ev.instance.pk.v]

\* The ChangeSet of two field-value rows: the differing fields, in field
\* order, each mapped to [old, new].
Absent(n) == [i \in 1..n |-> PyNone]

ExpectedChanges(old, new, n) ==
    LET Differs(i) == old[i] # new[i]
        idx == SelectSeq([i \in 1..n |-> i], Differs)
    IN PyDict([k \in 1..Len(idx) |->
                 <<FieldName(idx[k]), PyList(<<old[idx[k]], new[idx[k]]>>)>>])

\* The last entry records [kind, keys] under one of the instance's field names.
M2MEntry(kind, keys) ==
    \E i \in DOMAIN ev.instance.meta :
        LastChanges = dumps(PyDict(<< <<ev.instance.meta[i].name.v,
                          PyList(<<PyStr(kind), PyList(SortedSeq(keys))>>)>> >>))

M2MEvent == ev.signal = "m2m_changed" /\ Persisted(ev.instance)

DeclaresField ==
    \E i \in DOMAIN ev.instance.meta :
        /\ ev.instance.meta[i].kind = "ManyToManyField"
        /\ ev.instance.meta[i].through = PyStr(Through)

\* C1: log_update appends an UPDATE entry only when the diff of the stored row
\* and the instance is non-empty; an update whose stored row equals the
\* instance leaves the log store as it was.
C1_UpdateOnlyOnChange ==
    ev.signal = "pre_save" =>
        /\ ~Unchanged =>
              /\ StoredRowExists
              /\ StoredFields # ev.instance.fields
              /\ Truthy(model_instance_diff(
                     [ev.instance EXCEPT !.fields = StoredFields], ev.instance))
              /\ Appended("UPDATE")
        /\ (StoredRowExists /\ StoredFields = ev.instance.fields) => Unchanged

C1_Witness ==
    /\ ev.signal = "pre_save"
    /\ tracked > 0
    /\ StoredRowExists
    /\ StoredFields = ev.instance.fields
    /\ Len(log) > 0
    /\ Unchanged

\* C2 as stated: every log_create call appends exactly one CREATE entry and
\* every log_delete call appends exactly one DELETE entry.
C2_EveryCallLogs ==
    /\ ev.signal = "post_save" => Appended("CREATE")
    /\ ev.signal = "post_delete" => Appended("DELETE")

\* C2 amended: log_create called with created true appends exactly one CREATE
\* entry and log_delete called for a persisted instance appends exactly one
\* DELETE entry, also when the ChangeSet is empty; log_create with created
\* false and log_delete for an unsaved instance append nothing.
C2_LogsWhenTriggered ==
    /\ (ev.signal = "post_save" /\ ev.created) => Appended("CREATE")
    /\ (ev.signal = "post_save" /\ ~ev.created) => Unchanged
    /\ (ev.signal = "post_delete" /\ Persisted(ev.instance)) => Appended("DELETE")
    /\ (ev.signal = "post_delete" /\ ~Persisted(ev.instance)) => Unchanged

C2_Witness ==
    /\ tracked = 0
    /\ Len(log) = 2
    /\ log[1].action = "CREATE" /\ log[1].changes = "{}"
    /\ ev.signal = "post_delete"
    /\ Appended("DELETE") /\ LastChanges = "{}"

\* C3: pre_clear on a persisted instance appends nothing when no key is
\* related, and exactly one M2M_CHANGE entry ['clear', keys] listing every
\* related key otherwise, whatever pk_set the event carries.
C3_PreClear ==
    (M2MEvent /\ ev.action = "pre_clear") =>
        LET keys == ev.through_rows[ev.instance.pk.v]
        IN /\ keys = {} => Unchanged
           /\ keys # {} => Appended("M2M_CHANGE") /\ M2MEntry("clear", keys)

\* C4: an add or remove event on a persisted instance appends exactly one
\* M2M_CHANGE entry [suffix, keys] iff the action starts with post_ and the key
\* set is non-empty, and nothing otherwise.
C4_PostWithKeys ==
    (M2MEvent /\ ev.action \notin {"pre_clear", "post_clear"}) =>
        LET logged == ev.action \in {"post_add", "post_remove"} /\ ev.pk_set.v # {}
            suffix == IF ev.action = "post_add" THEN "add" ELSE "remove"
        IN /\ logged => Appended("M2M_CHANGE") /\ M2MEntry(suffix, ev.pk_set.v)
           /\ ~logged => Unchanged

\* C5: post_clear never appends; a clear seen as pre_clear then post_clear
\* appends at most one entry, and exactly one when keys were related at the
\* pre_clear stage.
C5_OneEntryPerClear ==
    /\ (ev.signal = "m2m_changed" /\ ev.action = "post_clear") => Unchanged
    /\ op.stage = "post" =>
          /\ Len(log) - op.n0 <= 1
          /\ op.had # {} => Len(log) - op.n0 = 1

\* C6: an m2m, update or delete event for an unsaved instance (pk None) is
\* ignored: nothing appended, no lookup made, no exception.
C6_UnsavedIgnored ==
    (ev.signal \in {"m2m_changed", "pre_save", "post_delete"} /\ ~Persisted(ev.instance)) =>
        /\ Unchanged
        /\ ev.reads = {}
        /\ ev.raised = ""

C6_Witness ==
    /\ ev.signal = "m2m_changed"
    /\ ev.action = "pre_clear"
    /\ ~Persisted(ev.instance)
    /\ ~DeclaresField
    /\ ev.reads = {}
    /\ Len(log) > 0
    /\ Unchanged

\* C7: an update event whose row is no longer stored is dropped: the lookup
\* fails, nothing is appended and no exception escapes.
C7_MissingRowDropped ==
    (ev.signal = "pre_save" /\ Persisted(ev.instance) /\ ~StoredRowExists) =>
        /\ Unchanged
        /\ ev.raised = ""

C7_Witness ==
    /\ ev.signal = "pre_save"
    /\ Persisted(ev.instance)
    /\ ~StoredRowExists
    /\ ev.reads = {"objects.get"}
    /\ tracked > 0
    /\ Len(log) > 0
    /\ Unchanged

\* C8: every event leaves the entries already stored as they were and appends
\* at most one entry.
C8_LogOnlyGrows ==
    \/ Unchanged
    \/ /\ Len(log) = Len(prev) + 1
       /\ SubSeq(log, 1, Len(prev)) = prev

C8_Witness ==
    /\ Len(prev) > 0
    /\ Len(log) = Len(prev) + 1
    /\ SubSeq(log, 1, Len(prev)) = prev
    /\ log[Len(log)] # log[1]

\* C9: the diff holds exactly the differing fields as [old, new]: empty for
\* equal snapshots, every field against None for an absent one; and it is what
\* the create, update and delete receivers serialize into their entries.
C9_DiffIsChangeSet ==
    /\ \A x \in Instances(tracked) :
          /\ model_instance_diff(x, x) = PyDict(<<>>)
          /\ model_instance_diff(PyNone, x) = ExpectedChanges(Absent(tracked), x.fields, tracked)
          /\ model_instance_diff(x, PyNone) = ExpectedChanges(x.fields, Absent(tracked), tracked)
          /\ Len(model_instance_diff(PyNone, x).v) = tracked
          /\ Len(model_instance_diff(x, PyNone).v) = tracked
    /\ (ev.signal = "post_save" /\ ev.created) =>
          LastChanges = dumps(ExpectedChanges(Absent(tracked), ev.instance.fields, tracked))
    /\ (ev.signal = "post_delete" /\ Persisted(ev.instance)) =>
          LastChanges = dumps(ExpectedChanges(ev.instance.fields, Absent(tracked), tracked))
    /\ (ev.signal = "pre_save" /\ ~Unchanged) =>
          LastChanges = dumps(ExpectedChanges(StoredFields, ev.instance.fields, tracked))

C9_Witness ==
    /\ tracked = MaxFields
    /\ ev.signal = "pre_save"
    /\ StoredRowExists
    /\ Len(log) = 2
    /\ log[1].action = "CREATE"
    /\ log[1].changes = dumps(ExpectedChanges(Absent(tracked), StoredFields, tracked))
    /\ Appended("UPDATE")
    /\ LastChanges = dumps(ExpectedChanges(StoredFields, ev.instance.fields, tracked))

\* C10: an m2m event on a persisted instance that passes the action and key-set
\* filter completes without an exception, and is ignored without an entry when
\* no ManyToManyField of the instance goes through the sender.
C10_FilteredEventCompletes ==
    (/\ M2MEvent
     /\ \/ ev.action = "pre_clear"
        \/ ev.action \in {"post_add", "post_remove"} /\ ev.pk_set.v # {}) =>
        /\ ev.raised = ""
        /\ ~DeclaresField => Unchanged

====
